---- MODULE Spec2Model ----
(***************************************************************************)
(* Code generator upgrade flow of src/DigitalTwin/CodeGenerateCore.ts:     *)
(* version comparison, release selection, download, hash validation,       *)
(* extraction and the record of the installed version.  Further: the       *)
(* download of an interface file, the configuration of the project         *)
(* environment, the upload to a Raspberry Pi and the c_cpp_properties.json *)
(* of an Arduino device.                                                   *)
(***************************************************************************)
EXTENDS Integers, Sequences, FiniteSets, TLC

(***************************************************************************)
(* Bounds                                                                  *)
(***************************************************************************)
MaxItems == 3       \* longest codeGeneratorConfigItems list in the remote document
MaxRuns == 2        \* calls of UpgradeCodeGenerator in one behaviour
MaxFailures == 1    \* failures of the network, the file system and the settings store in one behaviour
NumEntries == 2     \* entries of a code generator package (zip)
MaxDigit == 1       \* greatest numeric component of the versions handed to compareVersion alone
MaxDiscoveries == 1 \* answers "Discover again" in one call of configDeviceSettings
NumTemplateFiles == 2  \* files of a development environment template

(***************************************************************************)
(* Version strings.  A version string is held as the result of             *)
(* split('.'): the sequence of its components, each component a string.    *)
(***************************************************************************)
DigitVal ==
    ("0" :> 0) @@ ("1" :> 1) @@ ("2" :> 2) @@ ("3" :> 3) @@ ("4" :> 4)
    @@ ("5" :> 5) @@ ("9" :> 9)

\* Number(x) of a component that is not a number, and of undefined
NaN == -1

\* Number(s): digits give their value, the empty string gives 0, any other
\* text gives NaN
Number(s) == IF s \in DOMAIN DigitVal THEN DigitVal[s]
             ELSE IF s = "" THEN 0 ELSE NaN

\* Number(ver[i]) with ver[i] undefined past the end of the array
Component(ver, i) == IF i <= Len(ver) THEN Number(ver[i]) ELSE NaN

\* v1 > v2 and v1 < v2 on JavaScript numbers: false when either is NaN
NumGreater(v1, v2) == v1 # NaN /\ v2 # NaN /\ v1 > v2
NumLess(v1, v2) == v1 # NaN /\ v2 # NaN /\ v1 < v2

\* compareFrom with the loop ended after two components
RECURSIVE compareFrom_two(_, _, _)
compareFrom_two(ver1, ver2, i) ==
    IF i > 2 THEN 0
    ELSE IF NumGreater(Component(ver1, i), Component(ver2, i)) THEN 1
    ELSE IF NumLess(Component(ver1, i), Component(ver2, i)) THEN -1
    ELSE compareFrom_two(ver1, ver2, i + 1)

RECURSIVE compareFrom(_, _, _)
compareFrom(ver1, ver2, i) ==
    IF i > 3 THEN 0
    ELSE IF NumGreater(Component(ver1, i), Component(ver2, i)) THEN 1
    ELSE IF NumLess(Component(ver1, i), Component(ver2, i)) THEN -1
    ELSE compareFrom(ver1, ver2, i + 1)

compareVersion(verion1, verion2) == compareFrom(verion1, verion2, 1)

\* /^[0-9]+\.[0-9]+\.[0-9]+$/.test(extensionVersion)
IsReleaseVersion(ver) ==
    Len(ver) = 3 /\ \A i \in 1..3 : ver[i] \in DOMAIN DigitVal

(***************************************************************************)
(* The remote configuration document                                       *)
(***************************************************************************)
Platforms == {"win32", "darwin", "linux"}

Location(w, m, u) ==
    [win32Md5 |-> w, win32PackageUrl |-> "url-win32",
     macOSMd5 |-> m, macOSPackageUrl |-> "url-macOS",
     ubuntuMd5 |-> u, ubuntuPackageUrl |-> "url-ubuntu"]

\* a field that is missing in the document, a setting that was never written
Undefined == <<>>

ConfigItem(ver, min, loc) ==
    [codeGeneratorVersion |-> ver, iotWorkbenchMinimalVersion |-> min,
     codeGeneratorLocation |-> loc]

\* The releases a remote document of the model can list; the last one lacks
\* the field iotWorkbenchMinimalVersion
Releases ==
    { ConfigItem(<<"1", "2", "0">>, <<"1", "0", "0">>, Location("w1", "m1", "u1")),
      ConfigItem(<<"1", "3", "0">>, <<"1", "0", "0">>, Location("w2", "m2", "u2")),
      ConfigItem(<<"1", "x", "0">>, <<"1", "0", "0">>, Location("w3", "m3", "u3")),
      ConfigItem(<<"1", "4", "0">>, <<"9", "9", "9">>, Location("w4", "m4", "u4")),
      ConfigItem(<<"1", "5", "0">>, Undefined, Location("w5", "m5", "u5")) }

\* The versions of the extension (package.json): two releases and a
\* release candidate
ExtensionVersions ==
    { <<"1", "5", "0">>, <<"0", "9", "0">>, <<"1", "5", "0-rc">> }

\* The releases that can be installed before the first check of a behaviour
InstalledBefore ==
    { r \in Releases : r.codeGeneratorVersion \in
                         { <<"1", "2", "0">>, <<"1", "4", "0">> } }

\* Sequences of at most n distinct releases
RECURSIVE ItemLists(_)
ItemLists(n) ==
    IF n = 0 THEN { <<>> }
    ELSE LET shorter == ItemLists(n - 1)
         IN  shorter \cup
             { Append(l, r) : <<l, r>> \in
                 { <<l, r>> \in shorter \X Releases :
                     /\ Len(l) = n - 1
                     /\ \A i \in 1..Len(l) : l[i] # r } }

\* A document: nothing (empty body), an object without
\* codeGeneratorConfigItems, or an object with the list
ConfigDocument(truthy, hasItems, items) ==
    [truthy |-> truthy, hasItems |-> hasItems,
     codeGeneratorConfigItems |-> items]

ConfigDocuments ==
    { ConfigDocument(FALSE, FALSE, <<>>), ConfigDocument(TRUE, FALSE, <<>>) }
    \cup { ConfigDocument(TRUE, TRUE, l) : l \in ItemLists(MaxItems) }

(***************************************************************************)
(* Array.prototype.sort with the comparator of the upgrade.  The order it  *)
(* produces for a comparator that is not consistent is left to the engine: *)
(* V8 before 7.0 sorts short arrays by insertion, V8 from 7.0 by TimSort   *)
(* (one run made ascending, the rest inserted by binary search).           *)
(***************************************************************************)
Engines == {"insertion", "timsort"}

\* (configItem1, configItem2) => compareVersion(configItem2.version, configItem1.version)
sortCompare(configItem1, configItem2) ==
    compareVersion(configItem2.codeGeneratorVersion,
                   configItem1.codeGeneratorVersion)

InsertAt(a, pos, element) ==
    SubSeq(a, 1, pos) \o <<element>> \o SubSeq(a, pos + 1, Len(a))

RECURSIVE InsertPos(_, _, _)
InsertPos(a, element, j) ==
    IF j = 0 THEN 0
    ELSE IF sortCompare(a[j], element) > 0 THEN InsertPos(a, element, j - 1)
    ELSE j

RECURSIVE InsertionSort(_, _)
InsertionSort(sorted, rest) ==
    IF rest = <<>> THEN sorted
    ELSE InsertionSort(
            InsertAt(sorted, InsertPos(sorted, Head(rest), Len(sorted)), Head(rest)),
            Tail(rest))

RECURSIVE Reverse(_)
Reverse(a) == IF a = <<>> THEN <<>> ELSE Append(Reverse(Tail(a)), Head(a))

RECURSIVE RunEnd(_, _, _)
RunEnd(a, isDescending, idx) ==
    IF idx > Len(a) THEN Len(a)
    ELSE LET order == sortCompare(a[idx], a[idx - 1])
         IN  IF (isDescending /\ order >= 0) \/ (~isDescending /\ order < 0)
             THEN idx - 1
             ELSE RunEnd(a, isDescending, idx + 1)

\* The array with its first run made ascending, and the length of that run
CountAndMakeRun(a) ==
    LET isDescending == sortCompare(a[2], a[1]) < 0
        runLength == RunEnd(a, isDescending, 3)
        run == SubSeq(a, 1, runLength)
    IN  [array |-> (IF isDescending THEN Reverse(run) ELSE run)
                     \o SubSeq(a, runLength + 1, Len(a)),
         runLength |-> runLength]

RECURSIVE BinaryPos(_, _, _, _)
BinaryPos(a, pivot, left, right) ==
    IF left >= right THEN left
    ELSE LET mid == left + ((right - left) \div 2)
         IN  IF sortCompare(pivot, a[mid + 1]) < 0
             THEN BinaryPos(a, pivot, left, mid)
             ELSE BinaryPos(a, pivot, mid + 1, right)

RECURSIVE BinaryInsertionSort(_, _)
BinaryInsertionSort(sorted, rest) ==
    IF rest = <<>> THEN sorted
    ELSE BinaryInsertionSort(
            InsertAt(sorted, BinaryPos(sorted, Head(rest), 0, Len(sorted)), Head(rest)),
            Tail(rest))

TimSort(a) ==
    IF Len(a) < 2 THEN a
    ELSE LET made == CountAndMakeRun(a)
         IN  BinaryInsertionSort(SubSeq(made.array, 1, made.runLength),
                                 SubSeq(made.array, made.runLength + 1, Len(a)))

\* codeGenConfig.codeGeneratorConfigItems.sort(...)
SortItems(items, eng) ==
    IF eng = "insertion" THEN InsertionSort(<<>>, items) ELSE TimSort(items)

(***************************************************************************)
(* Selection of the target release                                         *)
(***************************************************************************)
\* null and undefined
Null == [null |-> TRUE]

\* the TypeError of split on a version that is undefined
TypeError == [error |-> "TypeError"]

\* FirstQualified with the arguments of the comparison exchanged
RECURSIVE FirstQualified_exchanged(_, _, _)
FirstQualified_exchanged(items, extVersion, i) ==
    IF i > Len(items) THEN Null
    ELSE IF items[i].iotWorkbenchMinimalVersion = Undefined THEN TypeError
    ELSE IF compareVersion(items[i].iotWorkbenchMinimalVersion, extVersion) >= 0
         THEN items[i]
         ELSE FirstQualified_exchanged(items, extVersion, i + 1)

\* the first item of the sorted list the extension version is new enough for
RECURSIVE FirstQualified(_, _, _)
FirstQualified(items, extVersion, i) ==
    IF i > Len(items) THEN Null
    ELSE IF items[i].iotWorkbenchMinimalVersion = Undefined THEN TypeError
    ELSE IF compareVersion(extVersion, items[i].iotWorkbenchMinimalVersion) >= 0
         THEN items[i]
         ELSE FirstQualified(items, extVersion, i + 1)

\* selectTarget falling back to the latest item when the gate excludes all
selectTarget_fallback(items, extVersion, eng) ==
    LET sorted == SortItems(items, eng)
        first == FirstQualified(sorted, extVersion, 1)
    IN  IF Len(sorted) = 0 THEN Null
        ELSE IF ~IsReleaseVersion(extVersion) \/ first = Null THEN sorted[1]
        ELSE first

\* targetConfigItem of a document with an item list
selectTarget(items, extVersion, eng) ==
    LET sorted == SortItems(items, eng)
    IN  IF ~IsReleaseVersion(extVersion)
        THEN (IF Len(sorted) > 0 THEN sorted[1] ELSE Null)
        ELSE FirstQualified(sorted, extVersion, 1)

\* md5value of the item for os.platform()
Md5For(item, pf) ==
    IF pf = "win32" THEN item.codeGeneratorLocation.win32Md5
    ELSE IF pf = "darwin" THEN item.codeGeneratorLocation.macOSMd5
    ELSE item.codeGeneratorLocation.ubuntuMd5

(***************************************************************************)
(* State                                                                   *)
(***************************************************************************)
VARIABLES
    remote,                \* the document served at codeGenConfigUrl
    extensionVersion,      \* version of package.json
    platform,              \* os.platform()
    engine,                \* the sort of the JavaScript engine
    codeGeneratorVersion,  \* the setting ConfigKey.codeGeneratorVersion
    toolDir,               \* the directory codeGenCommandPath
    tempFiles,             \* the files <md5value>.zip of the temporary folder
    proc,                  \* the calls of UpgradeCodeGenerator
    runs,                  \* calls started
    failures,              \* failures of the environment so far
    compared,              \* versions handed to compareVersion, and its results
    uploadConfig,          \* the static fields of RaspberryPiUploadConfig
    piCall,                \* the call of RaspberryPiDevice.upload or configDeviceSettings
    configer,              \* the calls of ProjectEnvironmentConfiger
    targetFiles,           \* the configuration files in the project folder
    interfaceCall,         \* the call of DownloadInterfaceFile
    interfaceFile,         \* the interface file in the target folder
    arduino,               \* the call of ArduinoDeviceBase.load or createCore
    deviceFiles            \* the device folder, its .vscode folder and c_cpp_properties.json

otherVars == <<uploadConfig, piCall, configer, targetFiles, interfaceCall,
               interfaceFile, arduino, deviceFiles>>

vars == <<compared, remote, extensionVersion, platform, engine, codeGeneratorVersion,
          toolDir, tempFiles, proc, runs, failures, otherVars>>

\* the state of the code generator upgrade, but for runs and failures
upgradeVars == <<compared, remote, extensionVersion, platform, engine,
                 codeGeneratorVersion, toolDir, tempFiles, proc>>

Procs == {1}

\* !currentVersion
Falsy(ver) == ver = Undefined \/ ver = <<"">>

Entries == 1..NumEntries

NoDir == [exists |-> FALSE, entries |-> [e \in Entries |-> "none"]]

\* the directory after a complete extraction of a package
InstalledDir(md5) == [exists |-> TRUE, entries |-> [e \in Entries |-> md5]]

TempNames == { Md5For(r, pf) : r \in Releases, pf \in Platforms }

IdleCall ==
    [pc |-> "idle", targetConfigItem |-> Null, needUpgrade |-> FALSE,
     md5value |-> "", hashvalue |-> "", loading |-> FALSE, extracted |-> 0,
     result |-> "none", failedAt |-> "", steps |-> <<>>, stub |-> "idle",
     pre |-> [codeGeneratorVersion |-> Undefined, toolDir |-> NoDir],
     prev |-> [result |-> "none", failedAt |-> "", targetConfigItem |-> Null,
               steps |-> <<>>],
     run |-> 0]

\* no call of compareVersion alone
NotCompared ==
    [a |-> Undefined, b |-> Undefined, c |-> Undefined, done |-> FALSE,
     ab |-> 0, ba |-> 0, bc |-> 0, ac |-> 0, aa |-> 0]

(***************************************************************************)
(* State of the other operations                                           *)
(***************************************************************************)
\* showQuickPick and showInputBox resolve to undefined when dismissed
NoAnswer == "undefined"

\* !answer for the answer of an input box
NotGiven(answer) == answer = NoAnswer \/ answer = ""

\* the static fields of RaspberryPiUploadConfig as they are initialized
DefaultUploadConfig ==
    [host |-> "hostname", port |-> 22, user |-> "username",
     password |-> "password", projectPath |-> "IoTProject", updated |-> FALSE]

\* no sdk.SSH object yet
NoSession ==
    [state |-> "none", host |-> "", port |-> 0, user |-> "", password |-> "",
     uploadedTo |-> ""]

IdleUpload ==
    [pc |-> "idle", op |-> "none", isRemote |-> FALSE, nameKnown |-> FALSE,
     binaryName |-> "", binaryKnown |-> FALSE, binaryExists |-> FALSE,
     asked |-> 0, discoveries |-> 0,
     raspiHost |-> "", raspiPort |-> 0, raspiUser |-> "", raspiPassword |-> "",
     session |-> NoSession, result |-> "none", failedAt |-> "",
     pre |-> DefaultUploadConfig]

TemplateFiles == 1..NumTemplateFiles

\* configureProjectEnvironment (outer) and configureProjectEnvironmentCore
IdleConfiger ==
    [outer |-> "idle", outerResult |-> "none",
     core |-> "idle", coreResult |-> "none", coreRun |-> 0,
     platform |-> "", index |-> 0, asked |-> 0, askedFor |-> 0,
     answer |-> "none", configured |-> FALSE,
     pre |-> [f \in TemplateFiles |-> "none"]]

\* no interface received
Nothing == "nothing"

IdleInterfaceCall ==
    [pc |-> "idle", connectionString |-> "", connected |-> FALSE,
     queries |-> <<>>, private |-> "none", public |-> "none",
     fileMetaData |-> Nothing, wrote |-> FALSE, result |-> "none",
     pre |-> "none"]

NoContent == [template |-> "none", version |-> "", rootPath |-> ""]

IdleArduino ==
    [pc |-> "idle", op |-> "none", content |-> NoContent, writes |-> 0,
     result |-> "none", run |-> 0,
     pre |-> NoContent]

NoDeviceFiles ==
    [deviceFolder |-> FALSE, vscodeFolder |-> FALSE, cppProperties |-> NoContent]

PiIdle == uploadConfig = DefaultUploadConfig /\ piCall = IdleUpload

ConfigerIdle ==
    configer = IdleConfiger /\ targetFiles = [f \in TemplateFiles |-> "none"]

InterfaceIdle == interfaceCall = IdleInterfaceCall /\ interfaceFile = "none"

ArduinoIdle == arduino = IdleArduino /\ deviceFiles = NoDeviceFiles

\* no call of UpgradeCodeGenerator or compareVersion, on any platform
UpgradeIdle ==
    /\ compared = NotCompared
    /\ remote = ConfigDocument(FALSE, FALSE, <<>>)
    /\ extensionVersion = <<"1", "5", "0">>
    /\ engine = "timsort"
    /\ codeGeneratorVersion = Undefined
    /\ toolDir = NoDir
    /\ tempFiles = [n \in TempNames |-> "none"]
    /\ proc = [p \in Procs |-> IdleCall]

OthersIdle == PiIdle /\ ConfigerIdle /\ InterfaceIdle /\ ArduinoIdle

Init ==
    /\ compared = NotCompared
    /\ remote \in ConfigDocuments
    /\ extensionVersion \in ExtensionVersions
    /\ platform \in Platforms
    /\ engine \in Engines
    /\ \/ codeGeneratorVersion = Undefined /\ toolDir = NoDir
       \/ \E r \in InstalledBefore :
            /\ codeGeneratorVersion = r.codeGeneratorVersion
            /\ toolDir \in {InstalledDir(Md5For(r, platform)), NoDir}
    /\ tempFiles = [n \in TempNames |-> "none"]
    /\ proc = [p \in Procs |-> IdleCall]
    /\ runs = 0
    /\ failures = 0
    /\ OthersIdle

(***************************************************************************)
(* UpgradeCodeGenerator                                                    *)
(***************************************************************************)
\* return of a value to GenerateDeviceCodeStub, which goes on to the code
\* generation (with a message when the value is false)
Return(call, value) ==
    [call EXCEPT !.pc = "idle", !.result = value, !.stub = "generate"]

\* Throw without clearInterval(loading) in the catch block
Throw_noClear(call, step) ==
    [call EXCEPT !.pc = "idle", !.result = "threw", !.failedAt = step,
                 !.stub = "threw"]

\* the catch block of the install: clearInterval(loading); throw error.
\* GenerateDeviceCodeStub does not catch: its await throws as well
Throw(call, step) ==
    [call EXCEPT !.pc = "idle", !.result = "threw", !.failedAt = step,
                 !.loading = FALSE, !.stub = "threw"]

\* the call and its request for the configuration document
Start(p) ==
    /\ proc[p].pc = "idle"
    /\ runs < MaxRuns
    /\ runs' = runs + 1
    /\ proc' = [proc EXCEPT ![p] =
            [IdleCall EXCEPT
                !.pc = "config",
                !.stub = "upgrade",
                !.run = proc[p].run + 1,
                !.pre = [codeGeneratorVersion |-> codeGeneratorVersion,
                         toolDir |-> toolDir],
                !.prev = [result |-> proc[p].result,
                          failedAt |-> proc[p].failedAt,
                          targetConfigItem |-> proc[p].targetConfigItem,
                          steps |-> proc[p].steps]]]
    /\ UNCHANGED <<otherVars, compared, remote, extensionVersion, platform, engine,
                   codeGeneratorVersion, toolDir, tempFiles, failures>>

\* the request for the configuration document is rejected
ConfigError(p) ==
    /\ proc[p].pc = "config"
    /\ failures < MaxFailures
    /\ failures' = failures + 1
    /\ proc' = [proc EXCEPT ![p] =
            Throw(@, "config")]
    /\ UNCHANGED <<otherVars, compared, remote, extensionVersion, platform, engine,
                   codeGeneratorVersion, toolDir, tempFiles, runs>>

\* needUpgrade with a version that differs for a version that is greater
needUpgrade_differs(target, dir, currentVersion) ==
    IF ~dir.exists THEN TRUE
    ELSE Falsy(currentVersion)
         \/ compareVersion(target.codeGeneratorVersion, currentVersion) # 0

\* needUpgrade without the look at the directory
needUpgrade_versionOnly(target, dir, currentVersion) ==
    Falsy(currentVersion)
    \/ compareVersion(target.codeGeneratorVersion, currentVersion) > 0

\* needUpgrade with >= 0 for > 0
needUpgrade_notOlder(target, dir, currentVersion) ==
    IF ~dir.exists THEN TRUE
    ELSE Falsy(currentVersion)
         \/ compareVersion(target.codeGeneratorVersion, currentVersion) >= 0

\* needUpgrade for a target
needUpgrade(target, dir, currentVersion) ==
    IF ~dir.exists THEN TRUE
    ELSE Falsy(currentVersion)
         \/ compareVersion(target.codeGeneratorVersion, currentVersion) > 0

\* targetConfigItem for a document that has an item list
targetOf(doc, extVersion, eng) ==
    IF doc.truthy
    THEN selectTarget(doc.codeGeneratorConfigItems, extVersion, eng)
    ELSE Null

\* the document arrives: selection, the version check, and the start of the
\* download when an upgrade is needed
ConfigResponse(p) ==
    /\ proc[p].pc = "config"
    /\ LET call == proc[p]
           target == targetOf(remote, extensionVersion, engine)
       IN  proc' = [proc EXCEPT ![p] =
              IF (remote.truthy /\ ~remote.hasItems) \/ target = TypeError
              THEN Throw(call, "config")
              ELSE IF target = Null
              THEN Return(call, "false")
              ELSE IF needUpgrade(target, toolDir, codeGeneratorVersion)
              THEN [call EXCEPT !.pc = "download",
                                !.targetConfigItem = target,
                                !.needUpgrade = TRUE,
                                !.md5value = Md5For(target, platform),
                                !.loading = TRUE,
                                !.steps = Append(@, "download")]
              ELSE Return([call EXCEPT !.targetConfigItem = target], "true")]
    /\ UNCHANGED <<otherVars, compared, remote, extensionVersion, platform, engine,
                   codeGeneratorVersion, toolDir, tempFiles, runs, failures>>

\* the content hashes a download can deliver: the package of the target for
\* one of the platforms, or damaged bytes
PayloadHashes(item) == { Md5For(item, pf) : pf \in Platforms } \cup {"corrupt"}

\* the package arrives and is written to <md5value>.zip; fileHash starts
DownloadResponse(p) ==
    /\ proc[p].pc = "download"
    /\ \E payload \in PayloadHashes(proc[p].targetConfigItem) :
        /\ \/ payload = proc[p].md5value /\ failures' = failures
           \/ /\ payload # proc[p].md5value
              /\ failures < MaxFailures
              /\ failures' = failures + 1
        /\ tempFiles' = [tempFiles EXCEPT ![proc[p].md5value] = payload]
        /\ proc' = [proc EXCEPT ![p] =
                [@ EXCEPT !.pc = "hashing", !.loading = FALSE,
                          !.steps = @ \o <<"write", "verify">>]]
    /\ UNCHANGED <<otherVars, compared, remote, extensionVersion, platform, engine,
                   codeGeneratorVersion, toolDir, runs>>

\* DownloadError with the request issued again
DownloadError_retry(p) ==
    /\ proc[p].pc = "download"
    /\ failures < MaxFailures
    /\ failures' = failures + 1
    /\ proc' = [proc EXCEPT ![p] = [@ EXCEPT !.steps = Append(@, "download")]]
    /\ UNCHANGED <<otherVars, compared, remote, extensionVersion, platform, engine,
                   codeGeneratorVersion, toolDir, tempFiles, runs>>

\* the download is rejected, or the temporary file cannot be written
DownloadError(p) ==
    /\ proc[p].pc = "download"
    /\ failures < MaxFailures
    /\ failures' = failures + 1
    /\ proc' = [proc EXCEPT ![p] = Throw(@, "download")]
    /\ UNCHANGED <<otherVars, compared, remote, extensionVersion, platform, engine,
                   codeGeneratorVersion, toolDir, tempFiles, runs>>

\* the comparison of md5value with itself
hashMismatch_self(hashvalue, md5value) == md5value # md5value

\* hashvalue !== md5value
hashMismatch(hashvalue, md5value) == hashvalue # md5value

\* HashDone recording the version as soon as the hash is valid
HashDone_earlyRecord(p) ==
    /\ proc[p].pc = "hashing"
    /\ LET hashvalue == tempFiles[proc[p].md5value]
       IN  /\ proc' = [proc EXCEPT ![p] =
                IF hashMismatch(hashvalue, proc[p].md5value)
                THEN Throw([@ EXCEPT !.hashvalue = hashvalue], "verify")
                ELSE [@ EXCEPT !.hashvalue = hashvalue, !.pc = "extracting",
                               !.extracted = 0,
                               !.steps = Append(@, "extract")]]
           /\ codeGeneratorVersion' =
                IF hashMismatch(hashvalue, proc[p].md5value)
                THEN codeGeneratorVersion
                ELSE proc[p].targetConfigItem.codeGeneratorVersion
    /\ UNCHANGED <<otherVars, compared, remote, extensionVersion, platform, engine,
                   toolDir, tempFiles, runs, failures>>

\* fileHash resolves: the comparison with md5value, and the start of extract
HashDone(p) ==
    /\ proc[p].pc = "hashing"
    /\ LET hashvalue == tempFiles[proc[p].md5value]
       IN  proc' = [proc EXCEPT ![p] =
              IF hashMismatch(hashvalue, proc[p].md5value)
              THEN Throw([@ EXCEPT !.hashvalue = hashvalue], "verify")
              ELSE [@ EXCEPT !.hashvalue = hashvalue, !.pc = "extracting",
                             !.extracted = 0,
                             !.steps = Append(@, "extract")]]
    /\ UNCHANGED <<otherVars, compared, remote, extensionVersion, platform, engine,
                   codeGeneratorVersion, toolDir, tempFiles, runs, failures>>

\* the read stream of fileHash reports an error
HashError(p) ==
    /\ proc[p].pc = "hashing"
    /\ failures < MaxFailures
    /\ failures' = failures + 1
    /\ proc' = [proc EXCEPT ![p] = Throw(@, "verify")]
    /\ UNCHANGED <<otherVars, compared, remote, extensionVersion, platform, engine,
                   codeGeneratorVersion, toolDir, tempFiles, runs>>

\* extract-zip writes the next entry of the package into the directory
ExtractEntry(p) ==
    /\ proc[p].pc = "extracting"
    /\ proc[p].extracted < NumEntries
    /\ toolDir' = [exists |-> TRUE,
                   entries |-> [toolDir.entries EXCEPT
                       ![proc[p].extracted + 1] = tempFiles[proc[p].md5value]]]
    /\ proc' = [proc EXCEPT ![p] = [@ EXCEPT !.extracted = @ + 1]]
    /\ UNCHANGED <<otherVars, compared, remote, extensionVersion, platform, engine,
                   codeGeneratorVersion, tempFiles, runs, failures>>

\* extract-zip reports an error before all entries are written
ExtractError(p) ==
    /\ proc[p].pc = "extracting"
    /\ proc[p].extracted < NumEntries
    /\ failures < MaxFailures
    /\ failures' = failures + 1
    /\ proc' = [proc EXCEPT ![p] = Throw(@, "extract")]
    /\ UNCHANGED <<otherVars, compared, remote, extensionVersion, platform, engine,
                   codeGeneratorVersion, toolDir, tempFiles, runs>>

\* ExtractDone without the await of extract
ExtractDone_noAwait(p) ==
    /\ proc[p].pc = "extracting"
    /\ proc' = [proc EXCEPT ![p] =
            [@ EXCEPT !.pc = "updating", !.steps = Append(@, "record")]]
    /\ UNCHANGED <<otherVars, compared, remote, extensionVersion, platform, engine,
                   codeGeneratorVersion, toolDir, tempFiles, runs, failures>>

\* extract resolves; ConfigHandler.update is called
ExtractDone(p) ==
    /\ proc[p].pc = "extracting"
    /\ proc[p].extracted = NumEntries
    /\ proc' = [proc EXCEPT ![p] =
            [@ EXCEPT !.pc = "updating", !.steps = Append(@, "record")]]
    /\ UNCHANGED <<otherVars, compared, remote, extensionVersion, platform, engine,
                   codeGeneratorVersion, toolDir, tempFiles, runs, failures>>

\* UpdateDone recording the version of the latest item of the document
UpdateDone_latest(p) ==
    /\ proc[p].pc = "updating"
    /\ codeGeneratorVersion' =
         SortItems(remote.codeGeneratorConfigItems, engine)[1].codeGeneratorVersion
    /\ proc' = [proc EXCEPT ![p] = Return(@, "true")]
    /\ UNCHANGED <<otherVars, compared, remote, extensionVersion, platform, engine,
                   toolDir, tempFiles, runs, failures>>

\* the setting is written; the call returns true
UpdateDone(p) ==
    /\ proc[p].pc = "updating"
    /\ codeGeneratorVersion' = proc[p].targetConfigItem.codeGeneratorVersion
    /\ proc' = [proc EXCEPT ![p] = Return(@, "true")]
    /\ UNCHANGED <<otherVars, compared, remote, extensionVersion, platform, engine,
                   toolDir, tempFiles, runs, failures>>

\* the settings store rejects the write
UpdateError(p) ==
    /\ proc[p].pc = "updating"
    /\ failures < MaxFailures
    /\ failures' = failures + 1
    /\ proc' = [proc EXCEPT ![p] = Throw(@, "update")]
    /\ UNCHANGED <<otherVars, compared, remote, extensionVersion, platform, engine,
                   codeGeneratorVersion, toolDir, tempFiles, runs>>

Next ==
    \E p \in Procs :
        \/ Start(p)
        \/ ConfigError(p)
        \/ ConfigResponse(p)
        \/ DownloadResponse(p)
        \/ DownloadError(p)
        \/ HashDone(p)
        \/ HashError(p)
        \/ ExtractEntry(p)
        \/ ExtractError(p)
        \/ ExtractDone(p)
        \/ UpdateDone(p)
        \/ UpdateError(p)

Spec == Init /\ [][Next]_vars

(***************************************************************************)
(* Properties                                                              *)
(***************************************************************************)
\* the step was started in the call
InSteps(call, step) == \E i \in 1..Len(call.steps) : call.steps[i] = step

\* the call has returned or thrown
Ended(call) == call.pc = "idle" /\ call.result # "none"

\* the call is past the selection of its target
Selected(call) ==
    call.run >= 1 /\ call.pc # "config" /\ call.failedAt # "config"

Items == remote.codeGeneratorConfigItems

\* the extension version is new enough for the item
PassesGate(item) ==
    compareVersion(extensionVersion, item.iotWorkbenchMinimalVersion) >= 0

\* C1: extraction starts only after the hash computed over the downloaded
\* file was found equal to the md5 of the selected release for the current
\* platform, every entry extracted comes from that file, and a computed hash
\* that differs ends the call with an error and nothing extracted.
C1_ExtractOnlyVerified ==
    \A p \in Procs :
        LET call == proc[p]
        IN  /\ InSteps(call, "extract") =>
                /\ call.hashvalue = Md5For(call.targetConfigItem, platform)
                /\ \A e \in 1..call.extracted :
                      toolDir.entries[e] = Md5For(call.targetConfigItem, platform)
            /\ (call.hashvalue # ""
                /\ call.hashvalue # Md5For(call.targetConfigItem, platform)) =>
                /\ call.result = "threw"
                /\ ~InSteps(call, "extract")
                /\ call.extracted = 0
                /\ toolDir = call.pre.toolDir

C1_Witness ==
    \E p \in Procs :
        /\ proc[p].pc = "extracting"
        /\ proc[p].extracted >= 1
        /\ proc[p].prev.failedAt = "verify"

\* C2: when the download, the hash validation or the extraction of a call
\* fails, the recorded code generator version is the one recorded before the
\* call.
C2_FailureKeepsInstalledState ==
    \A p \in Procs :
        (proc[p].result = "threw"
         /\ proc[p].failedAt \in {"download", "verify", "extract"})
        => codeGeneratorVersion = proc[p].pre.codeGeneratorVersion

C2_Witness ==
    \E p \in Procs :
        /\ proc[p].result = "threw"
        /\ proc[p].failedAt = "extract"
        /\ proc[p].extracted >= 1
        /\ proc[p].pre.codeGeneratorVersion # Undefined

\* C3: the recorded version changes only in a step of a call whose package
\* was verified and completely extracted, and it becomes the version of the
\* selected release; while a call is downloading, validating or extracting,
\* the recorded version is still the one from before the call.
C3_VersionOnlyAfterExtraction ==
    /\ [](\A p \in Procs :
            proc[p].pc \in {"download", "hashing", "extracting", "updating"}
            => codeGeneratorVersion = proc[p].pre.codeGeneratorVersion)
    /\ [][codeGeneratorVersion' # codeGeneratorVersion =>
            \E p \in Procs :
                /\ proc[p].pc = "updating"
                /\ proc[p].hashvalue = proc[p].md5value
                /\ proc[p].extracted = NumEntries
                /\ toolDir = InstalledDir(proc[p].md5value)
                /\ codeGeneratorVersion' =
                     proc[p].targetConfigItem.codeGeneratorVersion]_vars

C3_Witness ==
    \E p \in Procs :
        /\ proc[p].result = "true"
        /\ InSteps(proc[p], "record")
        /\ codeGeneratorVersion = proc[p].targetConfigItem.codeGeneratorVersion
        /\ codeGeneratorVersion # proc[p].pre.codeGeneratorVersion

\* C4: a call that failed in the extraction leaves the directory absent or
\* as it was before the call.
C4_ExtractionFailureLeavesDir ==
    \A p \in Procs :
        (proc[p].result = "threw" /\ proc[p].failedAt = "extract")
        => (~toolDir.exists \/ toolDir = proc[p].pre.toolDir)

\* C5: for a release version of the extension, the selected release never
\* has an iotWorkbenchMinimalVersion greater than the extension version.
C5_GateRespected ==
    \A p \in Procs :
        (IsReleaseVersion(extensionVersion) /\ proc[p].targetConfigItem # Null)
        => compareVersion(proc[p].targetConfigItem.iotWorkbenchMinimalVersion,
                          extensionVersion) <= 0

C5_Witness ==
    \E p \in Procs :
        /\ IsReleaseVersion(extensionVersion)
        /\ proc[p].targetConfigItem # Null
        /\ \E i \in 1..Len(Items) :
              compareVersion(Items[i].iotWorkbenchMinimalVersion,
                             extensionVersion) > 0

\* C6: for a release version of the extension, the selected release passes
\* the gate and no item that passes the gate has a greater version.
C6_HighestQualified ==
    \A p \in Procs :
        (IsReleaseVersion(extensionVersion) /\ proc[p].targetConfigItem # Null)
        => /\ PassesGate(proc[p].targetConfigItem)
           /\ \A i \in 1..Len(Items) :
                PassesGate(Items[i]) =>
                    compareVersion(Items[i].codeGeneratorVersion,
                        proc[p].targetConfigItem.codeGeneratorVersion) <= 0

\* C7: for a prerelease version of the extension, no item of the list has a
\* greater version than the selected release.
C7_PrereleaseHighest ==
    \A p \in Procs :
        (~IsReleaseVersion(extensionVersion) /\ proc[p].targetConfigItem # Null)
        => \A i \in 1..Len(Items) :
              compareVersion(Items[i].codeGeneratorVersion,
                  proc[p].targetConfigItem.codeGeneratorVersion) <= 0

\* C8 as claimed: with an empty item list, or with no item passing the gate,
\* whatever the extension version, no release is selected and the call
\* returns false with nothing downloaded, extracted or recorded.
C8_NoneSelected ==
    \A p \in Procs :
        (/\ Selected(proc[p])
         /\ remote.truthy /\ remote.hasItems
         /\ \A i \in 1..Len(Items) : ~PassesGate(Items[i]))
        => /\ proc[p].targetConfigItem = Null
           /\ proc[p].result = "false"
           /\ proc[p].steps = <<>>
           /\ codeGeneratorVersion = proc[p].pre.codeGeneratorVersion
           /\ toolDir = proc[p].pre.toolDir

\* C8 amended: with an empty item list (any extension version), or with a
\* release version of the extension and no item passing the gate, no release
\* is selected and the call returns false with nothing downloaded, extracted
\* or recorded.
C8_NoneSelectedRelease ==
    \A p \in Procs :
        (/\ Selected(proc[p])
         /\ remote.truthy /\ remote.hasItems
         /\ \/ Len(Items) = 0
            \/ /\ IsReleaseVersion(extensionVersion)
               /\ \A i \in 1..Len(Items) : ~PassesGate(Items[i]))
        => /\ proc[p].targetConfigItem = Null
           /\ proc[p].result = "false"
           /\ proc[p].steps = <<>>
           /\ codeGeneratorVersion = proc[p].pre.codeGeneratorVersion
           /\ toolDir = proc[p].pre.toolDir

C8_Witness ==
    \E p \in Procs :
        /\ Ended(proc[p])
        /\ proc[p].result = "false"
        /\ remote.hasItems
        /\ Len(Items) >= 2
        /\ IsReleaseVersion(extensionVersion)

\* C9 as claimed: with a recorded version the install is started only for a
\* selected release of a greater version; without one, every selected release
\* is installed.
C9_InstallOnlyIfNewer ==
    \A p \in Procs :
        /\ (InSteps(proc[p], "download")
            /\ ~Falsy(proc[p].pre.codeGeneratorVersion))
           => compareVersion(proc[p].targetConfigItem.codeGeneratorVersion,
                             proc[p].pre.codeGeneratorVersion) > 0
        /\ (Selected(proc[p]) /\ proc[p].targetConfigItem # Null
            /\ Falsy(proc[p].pre.codeGeneratorVersion))
           => InSteps(proc[p], "download")

\* C9 amended: the install of a selected release is started exactly when the
\* tool directory is missing, or no version is recorded, or the version of
\* the selected release is greater than the recorded one.
C9_InstallIffNeeded ==
    \A p \in Procs :
        (Selected(proc[p]) /\ proc[p].targetConfigItem # Null)
        => (InSteps(proc[p], "download")
            <=> \/ ~proc[p].pre.toolDir.exists
                \/ Falsy(proc[p].pre.codeGeneratorVersion)
                \/ compareVersion(proc[p].targetConfigItem.codeGeneratorVersion,
                                  proc[p].pre.codeGeneratorVersion) > 0)

C9_Witness ==
    \E p \in Procs :
        /\ InSteps(proc[p], "download")
        /\ ~proc[p].pre.toolDir.exists
        /\ ~Falsy(proc[p].pre.codeGeneratorVersion)
        /\ compareVersion(proc[p].targetConfigItem.codeGeneratorVersion,
                          proc[p].pre.codeGeneratorVersion) <= 0

\* C10 as claimed: a second call against the same document selects the same
\* release, starts no download, validation or extraction and leaves the
\* recorded version and the directory as they were.
C10_SecondRunNoOp ==
    \A p \in Procs :
        proc[p].run >= 2
        => /\ proc[p].steps = <<>>
           /\ codeGeneratorVersion = proc[p].pre.codeGeneratorVersion
           /\ toolDir = proc[p].pre.toolDir
           /\ Ended(proc[p]) =>
                proc[p].targetConfigItem = proc[p].prev.targetConfigItem

\* C10 amended: after a call that returned (true or false), the next call
\* against the same document starts no download, validation or extraction
\* and leaves the recorded version and the directory as they were; when it
\* obtains the document, it selects the same release and returns the same
\* value.
C10_SecondRunNoOpAfterReturn ==
    \A p \in Procs :
        (proc[p].run >= 2 /\ proc[p].prev.result \in {"true", "false"})
        => /\ proc[p].steps = <<>>
           /\ codeGeneratorVersion = proc[p].pre.codeGeneratorVersion
           /\ toolDir = proc[p].pre.toolDir
           /\ (Ended(proc[p]) /\ proc[p].result # "threw") =>
                /\ proc[p].targetConfigItem = proc[p].prev.targetConfigItem
                /\ proc[p].result = proc[p].prev.result

C10_Witness ==
    \E p \in Procs :
        /\ proc[p].run = 2
        /\ Ended(proc[p])
        /\ proc[p].result = "true"
        /\ InSteps(proc[p].prev, "record")

(***************************************************************************)
(* compareVersion alone, on version strings of two or three components     *)
(***************************************************************************)
CompareTokens == { s \in DOMAIN DigitVal : DigitVal[s] <= MaxDigit } \cup {"x"}

CompareVersions == [1..3 -> CompareTokens] \cup [1..2 -> CompareTokens]

InitCompare ==
    /\ compared \in { [NotCompared EXCEPT !.a = a, !.b = b, !.c = c] :
                        a \in CompareVersions, b \in CompareVersions,
                        c \in CompareVersions }
    /\ remote = ConfigDocument(FALSE, FALSE, <<>>)
    /\ extensionVersion = <<"1", "5", "0">>
    /\ platform = "linux"
    /\ engine = "timsort"
    /\ codeGeneratorVersion = Undefined
    /\ toolDir = NoDir
    /\ tempFiles = [n \in TempNames |-> "none"]
    /\ proc = [p \in Procs |-> IdleCall]
    /\ runs = 0
    /\ failures = 0
    /\ OthersIdle

\* the calls of compareVersion on the three versions
Compare ==
    /\ ~compared.done
    /\ compared' = [compared EXCEPT
            !.done = TRUE,
            !.ab = compareVersion(compared.a, compared.b),
            !.ba = compareVersion(compared.b, compared.a),
            !.bc = compareVersion(compared.b, compared.c),
            !.ac = compareVersion(compared.a, compared.c),
            !.aa = compareVersion(compared.a, compared.a)]
    /\ UNCHANGED <<otherVars, remote, extensionVersion, platform, engine,
                   codeGeneratorVersion, toolDir, tempFiles, proc, runs,
                   failures>>

NextCompare == Compare

SpecCompare == InitCompare /\ [][NextCompare]_vars

\* the number a version of three numeric components stands for
Weight(ver) == 100 * Number(ver[1]) + 10 * Number(ver[2]) + Number(ver[3])

\* the version with every component that is not a number replaced by 0
Zeroed(ver) ==
    [i \in 1..3 |-> IF Component(ver, i) = NaN THEN "0" ELSE ver[i]]

\* C11: on two versions of three numeric components compareVersion gives 1,
\* -1 or 0 as the first differing component among major, minor, patch
\* decides, and 0 exactly when all three are equal.
C11_ComparesMajorMinorPatch ==
    (compared.done /\ IsReleaseVersion(compared.a) /\ IsReleaseVersion(compared.b))
    => /\ compared.ab = (IF Weight(compared.a) > Weight(compared.b) THEN 1
                         ELSE IF Weight(compared.a) < Weight(compared.b) THEN -1
                         ELSE 0)
       /\ (compared.ab = 0 <=> compared.a = compared.b)

C11_Witness ==
    /\ compared.done
    /\ IsReleaseVersion(compared.a) /\ IsReleaseVersion(compared.b)
    /\ compared.a[1] = compared.b[1] /\ compared.a[2] = compared.b[2]
    /\ compared.ab = -1

\* C12: compareVersion is a total order over all version strings:
\* compare(a,b) = -compare(b,a), compare(a,a) = 0, and compare(a,b) <= 0 and
\* compare(b,c) <= 0 imply compare(a,c) <= 0.
C12_TotalOrder ==
    compared.done
    => /\ compared.ab = 0 - compared.ba
       /\ compared.aa = 0
       /\ (compared.ab <= 0 /\ compared.bc <= 0) => compared.ac <= 0

\* C13: a component that is not a number is compared as 0: compareVersion
\* of a version gives what it gives for the version with these components
\* replaced by 0.
C13_NonNumericAsZero ==
    (compared.done /\ Len(compared.a) = 3)
    => compared.ab = compareVersion(Zeroed(compared.a), compared.b)

\* C14: a call that ended because the computed hash differs from md5value
\* has deleted the file <md5value>.zip it wrote.
C14_ScratchDeletedOnMismatch ==
    \A p \in Procs :
        (/\ Ended(proc[p])
         /\ proc[p].failedAt = "verify"
         /\ proc[p].hashvalue # ""
         /\ proc[p].hashvalue # proc[p].md5value)
        => tempFiles[proc[p].md5value] = "none"

(***************************************************************************)
(* Two calls of UpgradeCodeGenerator at the same time                      *)
(***************************************************************************)
ConcProcs == {1, 2}

InitConc ==
    /\ compared = NotCompared
    /\ remote \in { d \in ConfigDocuments :
                      d.hasItems /\ Len(d.codeGeneratorConfigItems) = 1 }
    /\ extensionVersion = <<"1", "5", "0-rc">>
    /\ platform = "linux"
    /\ engine = "timsort"
    /\ \/ codeGeneratorVersion = Undefined /\ toolDir = NoDir
       \/ \E r \in InstalledBefore :
            /\ codeGeneratorVersion = r.codeGeneratorVersion
            /\ toolDir \in {InstalledDir(Md5For(r, platform)), NoDir}
    /\ tempFiles = [n \in TempNames |-> "none"]
    /\ proc = [p \in ConcProcs |-> IdleCall]
    /\ runs = 0
    /\ failures = 0
    /\ OthersIdle

NextConc ==
    \E p \in ConcProcs :
        \/ Start(p)
        \/ ConfigError(p)
        \/ ConfigResponse(p)
        \/ DownloadResponse(p)
        \/ DownloadError(p)
        \/ HashDone(p)
        \/ HashError(p)
        \/ ExtractEntry(p)
        \/ ExtractError(p)
        \/ ExtractDone(p)
        \/ UpdateDone(p)
        \/ UpdateError(p)

SpecConc == InitConc /\ [][NextConc]_vars

\* C15 (its last clause): when two calls that ran at the same time have
\* ended and one of them recorded a version, the directory holds the
\* complete content of the verified package of a release of that version.
C15_ConcurrentChecksIntact ==
    (/\ \A p \in ConcProcs : Ended(proc[p])
     /\ \E p \in ConcProcs : proc[p].result = "true" /\ InSteps(proc[p], "record"))
    => \E r \in Releases :
          /\ codeGeneratorVersion = r.codeGeneratorVersion
          /\ toolDir = InstalledDir(Md5For(r, platform))

\* C16: after a call of UpgradeCodeGenerator that found no target or failed,
\* GenerateDeviceCodeStub goes on to the code generation.
C16_FailureAbortsOnlyUpgrade ==
    \A p \in Procs :
        (/\ Ended(proc[p])
         /\ \/ proc[p].result = "false"
            \/ /\ proc[p].result = "threw"
               /\ proc[p].failedAt \in {"download", "verify", "extract"})
        => proc[p].stub = "generate"

\* C17: every call ends by returning true or false, and it returns true
\* exactly when it installed the target or found it already current.
C17_ReturnsBoolean ==
    \A p \in Procs :
        Ended(proc[p])
        => /\ proc[p].result \in {"true", "false"}
           /\ proc[p].result = "true"
              <=> /\ proc[p].targetConfigItem # Null
                  /\ \/ ~proc[p].needUpgrade
                     \/ /\ InSteps(proc[p], "record")
                        /\ codeGeneratorVersion =
                             proc[p].targetConfigItem.codeGeneratorVersion

\* the document lacks a required field
LacksField ==
    /\ remote.truthy
    /\ \/ ~remote.hasItems
       \/ \E i \in 1..Len(Items) : Items[i].iotWorkbenchMinimalVersion = Undefined

\* C18: with a document that lacks a required field, a call starts no
\* download and no extraction and leaves the recorded version.
C18_MalformedDocumentSkipped ==
    \A p \in Procs :
        (LacksField /\ proc[p].run >= 1)
        => /\ proc[p].steps = <<>>
           /\ codeGeneratorVersion = proc[p].pre.codeGeneratorVersion
           /\ toolDir = proc[p].pre.toolDir

\* the steps of an install, in the order of the code
InstallSteps == <<"download", "write", "verify", "extract", "record">>

\* number of times the step was started in the call
RECURSIVE Times(_, _)
Times(steps, step) ==
    IF steps = <<>> THEN 0
    ELSE (IF Head(steps) = step THEN 1 ELSE 0) + Times(Tail(steps), step)

\* C19: the steps a call has started are a beginning of download, write,
\* validation, extraction, record; each was started after the one before it
\* had succeeded; a call that needs no install starts none.
C19_StepsInOrder ==
    \A p \in Procs :
        LET call == proc[p]
        IN  /\ call.steps = SubSeq(InstallSteps, 1, Len(call.steps))
            /\ InSteps(call, "verify") => tempFiles[call.md5value] # "none"
            /\ InSteps(call, "extract") => call.hashvalue = call.md5value
            /\ InSteps(call, "record") =>
                  /\ call.extracted = NumEntries
                  /\ toolDir = InstalledDir(call.md5value)
            /\ ~call.needUpgrade => call.steps = <<>>

C19_Witness ==
    \E p \in Procs :
        /\ proc[p].result = "true"
        /\ proc[p].steps = InstallSteps

\* C20: a call issues at most one download and writes at most one temporary
\* file; a download that fails ends the call with the error thrown to the
\* caller, without a second request.
C20_OneDownloadNoRetry ==
    \A p \in Procs :
        LET call == proc[p]
        IN  /\ Times(call.steps, "download") <= 1
            /\ Times(call.steps, "write") <= 1
            /\ call.run = 1 =>
                  Cardinality({ n \in TempNames : tempFiles[n] # "none" }) <= 1
            /\ call.failedAt = "download" =>
                  /\ call.pc = "idle"
                  /\ call.result = "threw"
                  /\ call.stub = "threw"
                  /\ call.steps = <<"download">>

C20_Witness ==
    \E p \in Procs :
        /\ proc[p].failedAt = "download"
        /\ proc[p].result = "threw"
        /\ proc[p].steps = <<"download">>

\* C22 as claimed: in every step the recorded code generator version stays
\* or becomes one that compareVersion does not put below the one before.
C22_VersionNeverDecreases ==
    [][compareVersion(codeGeneratorVersion', codeGeneratorVersion) >= 0]_vars

\* C22 amended: a call that found the tool directory present changes the
\* recorded version only to one that compareVersion puts above it, or sets
\* it when none was recorded; a call that found the directory missing
\* records the version of the release it installed, whatever was recorded.
C22_NoDecreaseWithDirectory ==
    [][\A p \in Procs :
         (codeGeneratorVersion' # codeGeneratorVersion
          /\ proc[p].pre.toolDir.exists)
         => \/ Falsy(codeGeneratorVersion)
            \/ compareVersion(codeGeneratorVersion', codeGeneratorVersion) > 0]_vars

C22_Witness ==
    \E p \in Procs :
        /\ proc[p].result = "true"
        /\ InSteps(proc[p], "record")
        /\ proc[p].pre.toolDir.exists
        /\ ~Falsy(proc[p].pre.codeGeneratorVersion)
        /\ compareVersion(codeGeneratorVersion,
                          proc[p].pre.codeGeneratorVersion) > 0

\* C26: the timer of the progress dots runs only while the download is
\* awaited: it is stopped in every call that has returned or thrown, and in
\* the steps after the download.
C26_TimerStopped ==
    \A p \in Procs :
        /\ Ended(proc[p]) => ~proc[p].loading
        /\ proc[p].loading => proc[p].pc = "download"

C26_Witness ==
    \E p \in Procs :
        /\ Ended(proc[p])
        /\ proc[p].failedAt = "download"
        /\ InSteps(proc[p], "download")
        /\ ~proc[p].loading

(***************************************************************************)
(* RaspberryPiDevice: upload and configDeviceSettings                      *)
(***************************************************************************)
\* the texts of a port an input box delivers, with Number(text)
PortOf == ("22" :> 22) @@ ("2222" :> 2222)

\* Number(raspiPortString): NaN for a text that is not a number
PortNumber(text) == IF text \in DOMAIN PortOf THEN PortOf[text] ELSE NaN

\* RaspberryPiUploadConfig.port.toString()
PortString(port) == CHOOSE text \in DOMAIN PortOf : PortOf[text] = port

AutoDiscover == "$(search) Auto discover"
ManualSetup == "$(gear) Manual setup"
DiscoverAgain == "$(sync) Discover again"

\* The answers of the user to a prompt are drawn where the prompt is
\* answered; an input box can also be confirmed with the stored value it
\* shows.

\* what getBinaryFileName resolves to: nothing, or the name in add_executable
BinaryNames == {"", "app"}

\* the prompts of configDeviceSettings
ConfigPrompts == {"choice", "device", "host", "port", "user", "password", "path"}

\* a prompt of configDeviceSettings is shown
Ask(call, prompt) == [call EXCEPT !.pc = prompt, !.asked = @ + 1]

\* return of upload or of configDeviceSettings
UploadReturn(call, value) == [call EXCEPT !.pc = "idle", !.result = value]

\* OperationCanceledError of configDeviceSettings, and the catch block of
\* upload that throws OperationFailedError
Failed(call, step) ==
    [call EXCEPT !.pc = "idle", !.result = "threw", !.failedAt = step]

\* new sdk.SSH() and ssh.open(host, port, user, password)
OpenSession(call, config) ==
    [call EXCEPT !.pc = "opening",
                 !.session = [state |-> "opening", host |-> config.host,
                              port |-> config.port, user |-> config.user,
                              password |-> config.password,
                              uploadedTo |-> ""]]

\* upload is called: RemoteExtension.isRemote
UploadStart ==
    /\ piCall.pc = "idle"
    /\ runs < MaxRuns
    /\ runs' = runs + 1
    /\ \E isRemote \in BOOLEAN :
         piCall' = [IdleUpload EXCEPT
                        !.op = "upload", !.isRemote = isRemote,
                        !.pre = uploadConfig,
                        !.pc = IF isRemote THEN "binaryName" ELSE "askRemote"]
    /\ UNCHANGED <<upgradeVars, failures, uploadConfig, configer, targetFiles,
                   interfaceCall, interfaceFile, arduino, deviceFiles>>

\* askAndOpenInRemote resolves; upload returns false
AskRemoteDone ==
    /\ piCall.pc = "askRemote"
    /\ piCall' = UploadReturn(piCall, "false")
    /\ UNCHANGED <<upgradeVars, runs, failures, uploadConfig, configer,
                   targetFiles, interfaceCall, interfaceFile, arduino,
                   deviceFiles>>

\* BinaryNameDone going on without a name
BinaryNameDone_noCheck ==
    /\ piCall.pc = "binaryName"
    /\ \E name \in BinaryNames :
         piCall' = [piCall EXCEPT !.nameKnown = TRUE, !.binaryName = name,
                                  !.pc = "binaryExists"]
    /\ UNCHANGED <<upgradeVars, runs, failures, uploadConfig, configer,
                   targetFiles, interfaceCall, interfaceFile, arduino,
                   deviceFiles>>

\* getBinaryFileName resolves
BinaryNameDone ==
    /\ piCall.pc = "binaryName"
    /\ \E name \in BinaryNames :
         LET call == [piCall EXCEPT !.nameKnown = TRUE, !.binaryName = name]
         IN  piCall' = IF name = ""
                       THEN UploadReturn(call, "false")
                       ELSE [call EXCEPT !.pc = "binaryExists"]
    /\ UNCHANGED <<upgradeVars, runs, failures, uploadConfig, configer,
                   targetFiles, interfaceCall, interfaceFile, arduino,
                   deviceFiles>>

\* BinaryExistsDone asking for the settings in every upload
BinaryExistsDone_alwaysAsk ==
    /\ piCall.pc = "binaryExists"
    /\ \E exists \in BOOLEAN :
         LET call == [piCall EXCEPT !.binaryKnown = TRUE,
                                    !.binaryExists = exists]
         IN  piCall' = IF ~exists THEN UploadReturn(call, "false")
                       ELSE Ask(call, "choice")
    /\ UNCHANGED <<upgradeVars, runs, failures, uploadConfig, configer,
                   targetFiles, interfaceCall, interfaceFile, arduino,
                   deviceFiles>>

\* fileExists(binaryFilePath) resolves; with the binary there, the settings
\* are asked for when they were never updated, and the session is opened
BinaryExistsDone ==
    /\ piCall.pc = "binaryExists"
    /\ \E exists \in BOOLEAN :
         LET call == [piCall EXCEPT !.binaryKnown = TRUE,
                                    !.binaryExists = exists]
         IN  piCall' = IF ~exists THEN UploadReturn(call, "false")
                       ELSE IF ~uploadConfig.updated THEN Ask(call, "choice")
                       ELSE OpenSession(call, uploadConfig)
    /\ UNCHANGED <<upgradeVars, runs, failures, uploadConfig, configer,
                   targetFiles, interfaceCall, interfaceFile, arduino,
                   deviceFiles>>

\* configDeviceSettings is called as a command of its own
ConfigStart ==
    /\ piCall.pc = "idle"
    /\ runs < MaxRuns
    /\ runs' = runs + 1
    /\ piCall' = Ask([IdleUpload EXCEPT !.op = "config", !.pre = uploadConfig],
                     "choice")
    /\ UNCHANGED <<upgradeVars, failures, uploadConfig, configer, targetFiles,
                   interfaceCall, interfaceFile, arduino, deviceFiles>>

\* the quick pick of the way to find the device is answered
ChoicePicked ==
    /\ piCall.pc = "choice"
    /\ \E answer \in {NoAnswer, AutoDiscover, ManualSetup} :
         piCall' = IF answer = NoAnswer THEN Failed(piCall, "choice")
                   ELSE IF answer = AutoDiscover THEN Ask(piCall, "device")
                   ELSE Ask(piCall, "host")
    /\ UNCHANGED <<upgradeVars, runs, failures, uploadConfig, configer,
                   targetFiles, interfaceCall, interfaceFile, arduino,
                   deviceFiles>>

\* the quick pick of the discovered devices is answered
DevicePicked ==
    /\ piCall.pc = "device"
    /\ \E answer \in {NoAnswer, DiscoverAgain, ManualSetup, "192.168.0.7"} :
         /\ answer = DiscoverAgain => piCall.discoveries < MaxDiscoveries
         /\ piCall' =
              IF answer = DiscoverAgain
              THEN Ask([piCall EXCEPT !.discoveries = @ + 1], "device")
              ELSE IF answer = NoAnswer THEN Failed(piCall, "device")
              ELSE IF answer = ManualSetup THEN Ask(piCall, "host")
              ELSE Ask([piCall EXCEPT !.raspiHost = answer], "port")
    /\ UNCHANGED <<upgradeVars, runs, failures, uploadConfig, configer,
                   targetFiles, interfaceCall, interfaceFile, arduino,
                   deviceFiles>>

\* HostEntered storing the host as soon as it is entered
HostEntered_assign ==
    /\ piCall.pc = "host"
    /\ \E answer \in {NoAnswer, "", "raspberrypi.local"} \cup {uploadConfig.host} :
         /\ piCall' = IF NotGiven(answer) THEN Failed(piCall, "host")
                      ELSE Ask([piCall EXCEPT !.raspiHost = answer], "port")
         /\ uploadConfig' = IF NotGiven(answer) THEN uploadConfig
                            ELSE [uploadConfig EXCEPT !.host = answer]
    /\ UNCHANGED <<upgradeVars, runs, failures, configer,
                   targetFiles, interfaceCall, interfaceFile, arduino,
                   deviceFiles>>

\* the input box of the host is answered
HostEntered ==
    /\ piCall.pc = "host"
    /\ \E answer \in {NoAnswer, "", "raspberrypi.local"} \cup {uploadConfig.host} :
         piCall' = IF NotGiven(answer) THEN Failed(piCall, "host")
                   ELSE Ask([piCall EXCEPT !.raspiHost = answer], "port")
    /\ uploadConfig' = uploadConfig
    /\ UNCHANGED <<upgradeVars, runs, failures, configer,
                   targetFiles, interfaceCall, interfaceFile, arduino,
                   deviceFiles>>

\* the input box of the port is answered
PortEntered ==
    /\ piCall.pc = "port"
    /\ \E answer \in {NoAnswer, "", "2222", "ssh"} \cup {PortString(uploadConfig.port)} :
         piCall' =
            IF NotGiven(answer) THEN Failed(piCall, "port")
            ELSE Ask([piCall EXCEPT !.raspiPort =
                        IF PortNumber(answer) # NaN THEN PortNumber(answer)
                        ELSE uploadConfig.port], "user")
    /\ UNCHANGED <<upgradeVars, runs, failures, uploadConfig, configer,
                   targetFiles, interfaceCall, interfaceFile, arduino,
                   deviceFiles>>

\* the input box of the user name is answered
UserEntered ==
    /\ piCall.pc = "user"
    /\ \E answer \in {NoAnswer, "", "pi"} \cup {uploadConfig.user} :
         piCall' = IF NotGiven(answer) THEN Failed(piCall, "user")
                   ELSE Ask([piCall EXCEPT !.raspiUser = answer], "password")
    /\ UNCHANGED <<upgradeVars, runs, failures, uploadConfig, configer,
                   targetFiles, interfaceCall, interfaceFile, arduino,
                   deviceFiles>>

\* the input box of the password is answered; only undefined cancels, an
\* empty answer keeps the stored password
PasswordEntered ==
    /\ piCall.pc = "password"
    /\ \E answer \in {NoAnswer, "", "raspberry"} \cup {uploadConfig.password} :
         piCall' =
            IF answer = NoAnswer THEN Failed(piCall, "password")
            ELSE Ask([piCall EXCEPT !.raspiPassword =
                        IF answer = "" THEN uploadConfig.password
                        ELSE answer], "path")
    /\ UNCHANGED <<upgradeVars, runs, failures, uploadConfig, configer,
                   targetFiles, interfaceCall, interfaceFile, arduino,
                   deviceFiles>>

\* the input box of the path is answered; the static fields are assigned,
\* and upload goes on to open the session
PathEntered ==
    /\ piCall.pc = "path"
    /\ \E answer \in {NoAnswer, "", "app"} \cup {uploadConfig.projectPath} :
         LET config == [host |-> piCall.raspiHost, port |-> piCall.raspiPort,
                        user |-> piCall.raspiUser,
                        password |-> piCall.raspiPassword,
                        projectPath |-> answer, updated |-> TRUE]
         IN  /\ uploadConfig' = IF NotGiven(answer) THEN uploadConfig
                                ELSE config
             /\ piCall' = IF NotGiven(answer) THEN Failed(piCall, "path")
                          ELSE IF piCall.op = "upload"
                          THEN OpenSession(piCall, config)
                          ELSE UploadReturn(piCall, "done")
    /\ UNCHANGED <<upgradeVars, runs, failures, configer,
                   targetFiles, interfaceCall, interfaceFile, arduino,
                   deviceFiles>>

\* ssh.open resolves
SshOpened ==
    /\ piCall.pc = "opening"
    /\ piCall' = [piCall EXCEPT !.pc = "uploading", !.session.state = "open"]
    /\ UNCHANGED <<upgradeVars, runs, failures, uploadConfig, configer,
                   targetFiles, interfaceCall, interfaceFile, arduino,
                   deviceFiles>>

\* ssh.open rejects: no session
SshOpenError ==
    /\ piCall.pc = "opening"
    /\ failures < MaxFailures
    /\ failures' = failures + 1
    /\ piCall' = Failed([piCall EXCEPT !.session.state = "failed"], "open")
    /\ UNCHANGED <<upgradeVars, runs, uploadConfig, configer,
                   targetFiles, interfaceCall, interfaceFile, arduino,
                   deviceFiles>>

\* ssh.uploadFile resolves; enableBinaryExecutability runs chmod
FileUploaded ==
    /\ piCall.pc = "uploading"
    /\ piCall' = [piCall EXCEPT !.pc = "chmod",
                     !.session.uploadedTo = uploadConfig.projectPath]
    /\ UNCHANGED <<upgradeVars, runs, failures, uploadConfig, configer,
                   targetFiles, interfaceCall, interfaceFile, arduino,
                   deviceFiles>>

\* ssh.uploadFile rejects: OperationFailedError, thrown again by the outer
\* catch block
FileUploadError ==
    /\ piCall.pc = "uploading"
    /\ failures < MaxFailures
    /\ failures' = failures + 1
    /\ piCall' = Failed(piCall, "uploadFile")
    /\ UNCHANGED <<upgradeVars, runs, uploadConfig, configer,
                   targetFiles, interfaceCall, interfaceFile, arduino,
                   deviceFiles>>

\* ssh.exec(chmodCmd) resolves; ssh.close is called
ChmodDone ==
    /\ piCall.pc = "chmod"
    /\ piCall' = [piCall EXCEPT !.pc = "closing"]
    /\ UNCHANGED <<upgradeVars, runs, failures, uploadConfig, configer,
                   targetFiles, interfaceCall, interfaceFile, arduino,
                   deviceFiles>>

\* ssh.exec(chmodCmd) rejects
ChmodError ==
    /\ piCall.pc = "chmod"
    /\ failures < MaxFailures
    /\ failures' = failures + 1
    /\ piCall' = Failed(piCall, "chmod")
    /\ UNCHANGED <<upgradeVars, runs, uploadConfig, configer,
                   targetFiles, interfaceCall, interfaceFile, arduino,
                   deviceFiles>>

\* ssh.close resolves; upload returns true
SshClosed ==
    /\ piCall.pc = "closing"
    /\ piCall' = UploadReturn([piCall EXCEPT !.session.state = "closed"], "true")
    /\ UNCHANGED <<upgradeVars, runs, failures, uploadConfig, configer,
                   targetFiles, interfaceCall, interfaceFile, arduino,
                   deviceFiles>>

\* ssh.close rejects
SshCloseError ==
    /\ piCall.pc = "closing"
    /\ failures < MaxFailures
    /\ failures' = failures + 1
    /\ piCall' = Failed(piCall, "close")
    /\ UNCHANGED <<upgradeVars, runs, uploadConfig, configer,
                   targetFiles, interfaceCall, interfaceFile, arduino,
                   deviceFiles>>

InitPi ==
    /\ UpgradeIdle
    /\ platform = "linux"
    /\ runs = 0
    /\ failures = 0
    /\ OthersIdle

NextPi ==
    \/ UploadStart
    \/ AskRemoteDone
    \/ BinaryNameDone
    \/ BinaryExistsDone
    \/ ConfigStart
    \/ ChoicePicked
    \/ DevicePicked
    \/ HostEntered
    \/ PortEntered
    \/ UserEntered
    \/ PasswordEntered
    \/ PathEntered
    \/ SshOpened
    \/ SshOpenError
    \/ FileUploaded
    \/ FileUploadError
    \/ ChmodDone
    \/ ChmodError
    \/ SshClosed
    \/ SshCloseError

SpecPi == InitPi /\ [][NextPi]_vars

\* C21: an upload shows prompts only when the flag updated was false at its
\* start; an upload that starts with the flag set shows none, leaves the
\* stored settings as they are and opens its session and uploads with the
\* stored host, port, user, password and path; the flag, once set, stays set.
C21_SettingsAskedOnce ==
    /\ [](piCall.op = "upload" =>
            /\ piCall.asked > 0 => ~piCall.pre.updated
            /\ piCall.pre.updated =>
                 (piCall.asked = 0 /\ uploadConfig = piCall.pre)
            /\ piCall.session.state # "none" =>
                 /\ uploadConfig.updated
                 /\ piCall.session.host = uploadConfig.host
                 /\ piCall.session.port = uploadConfig.port
                 /\ piCall.session.user = uploadConfig.user
                 /\ piCall.session.password = uploadConfig.password
            /\ piCall.pc \in {"chmod", "closing"} =>
                 piCall.session.uploadedTo = uploadConfig.projectPath)
    /\ [][uploadConfig.updated => uploadConfig'.updated]_vars

C21_Witness ==
    /\ piCall.op = "upload"
    /\ piCall.pre.updated
    /\ piCall.pc = "closing"
    /\ piCall.session.host = "raspberrypi.local"
    /\ piCall.session.uploadedTo = "app"

\* C23: while configDeviceSettings is at a prompt, and after it was cancelled
\* at any prompt, the static settings and the flag are those from before the
\* call; they change only in the step that answers the last prompt, all six
\* together, to the answers collected.
C23_SettingsAllOrNothing ==
    /\ []((piCall.pc \in ConfigPrompts
           \/ (piCall.result = "threw" /\ piCall.failedAt \in ConfigPrompts))
          => uploadConfig = piCall.pre)
    /\ [][uploadConfig' # uploadConfig =>
            /\ piCall.pc = "path"
            /\ uploadConfig'.host = piCall.raspiHost
            /\ uploadConfig'.port = piCall.raspiPort
            /\ uploadConfig'.user = piCall.raspiUser
            /\ uploadConfig'.password = piCall.raspiPassword
            /\ ~NotGiven(uploadConfig'.projectPath)
            /\ uploadConfig'.updated]_vars

C23_Witness ==
    /\ piCall.result = "threw"
    /\ piCall.failedAt = "path"
    /\ piCall.raspiHost # uploadConfig.host
    /\ piCall.raspiPort # uploadConfig.port
    /\ uploadConfig.updated

\* C24: an upload that has returned, or thrown for another reason than a
\* failure of ssh.close, has left no session open.
C24_SessionClosed ==
    (/\ piCall.op = "upload"
     /\ piCall.pc = "idle"
     /\ piCall.result # "none"
     /\ piCall.failedAt # "close")
    => piCall.session.state # "open"

\* C25: an upload outside a remote environment, without a name of the
\* executable, or without the compiled binary shows no prompt, creates no
\* session, leaves the settings and returns false.
C25_NothingToUpload ==
    (/\ piCall.op = "upload"
     /\ \/ ~piCall.isRemote
        \/ piCall.nameKnown /\ piCall.binaryName = ""
        \/ piCall.binaryKnown /\ ~piCall.binaryExists)
    => /\ piCall.asked = 0
       /\ piCall.session = NoSession
       /\ uploadConfig = piCall.pre
       /\ piCall.pc \in {"idle", "askRemote"}
       /\ piCall.pc = "idle" => piCall.result = "false"

C25_Witness ==
    /\ piCall.op = "upload"
    /\ piCall.result = "false"
    /\ piCall.binaryKnown
    /\ ~piCall.binaryExists
    /\ ~uploadConfig.updated

(***************************************************************************)
(* ProjectEnvironmentConfiger                                              *)
(***************************************************************************)
EmbeddedLinux == "Embedded Linux"

\* OverwriteLabel
No == "No"
YesToAll == "Yes to all"

\* return of configureProjectEnvironmentCore
CoreReturn(c, value) == [c EXCEPT !.core = "idle", !.coreResult = value]

\* askToOverwrite gave true: the question for the customization, or the
\* call of project.configureProjectEnv
Proceed(c) ==
    IF c.platform = EmbeddedLinux THEN [c EXCEPT !.core = "customize"]
    ELSE [c EXCEPT !.core = "configure", !.configured = TRUE]

\* configureProjectEnvironment is called: the checks for a local window and
\* an open folder, then selectPlatform inside withProgress
ConfigureStart ==
    /\ configer.outer = "idle"
    /\ configer.core = "idle"
    /\ runs < MaxRuns
    /\ runs' = runs + 1
    /\ \E isLocal \in BOOLEAN, hasFolder \in BOOLEAN :
         configer' = [IdleConfiger EXCEPT
             !.pre = targetFiles,
             !.coreRun = configer.coreRun,
             !.outer = IF isLocal /\ hasFolder THEN "selectPlatform" ELSE "idle",
             !.outerResult = IF isLocal /\ hasFolder THEN "none" ELSE "returned"]
    /\ UNCHANGED <<upgradeVars, failures, uploadConfig, piCall, targetFiles,
                   interfaceCall, interfaceFile, arduino, deviceFiles>>

\* selectPlatform resolves.  With a platform the callback calls
\* configureProjectEnvironmentCore, which runs up to its first await, and
\* returns without awaiting it
PlatformSelected ==
    /\ configer.outer = "selectPlatform"
    /\ \E selection \in {NoAnswer, "Arduino", EmbeddedLinux} :
         configer' =
            IF selection = NoAnswer
            THEN [configer EXCEPT !.outer = "progress"]
            ELSE [configer EXCEPT !.outer = "progress",
                                  !.core = "readTemplate",
                                  !.coreRun = @ + 1,
                                  !.platform = selection]
    /\ UNCHANGED <<upgradeVars, runs, failures, uploadConfig, piCall,
                   targetFiles, interfaceCall, interfaceFile, arduino,
                   deviceFiles>>

\* withProgress resolves; configureProjectEnvironment returns
ProgressDone ==
    /\ configer.outer = "progress"
    /\ configer' = [configer EXCEPT !.outer = "idle", !.outerResult = "returned"]
    /\ UNCHANGED <<upgradeVars, runs, failures, uploadConfig, piCall,
                   targetFiles, interfaceCall, interfaceFile, arduino,
                   deviceFiles>>

\* the template list is read and parsed
TemplateRead ==
    /\ configer.core = "readTemplate"
    /\ configer' = [configer EXCEPT !.core =
            IF configer.platform = EmbeddedLinux THEN "selectContainer"
            ELSE "templateFiles"]
    /\ UNCHANGED <<upgradeVars, runs, failures, uploadConfig, piCall,
                   targetFiles, interfaceCall, interfaceFile, arduino,
                   deviceFiles>>

\* the template list cannot be read or parsed, or lacks the template
TemplateReadError ==
    /\ configer.core = "readTemplate"
    /\ failures < MaxFailures
    /\ failures' = failures + 1
    /\ configer' = CoreReturn(configer, "threw")
    /\ UNCHANGED <<upgradeVars, runs, uploadConfig, piCall,
                   targetFiles, interfaceCall, interfaceFile, arduino,
                   deviceFiles>>

\* selectContainer resolves
ContainerSelected ==
    /\ configer.core = "selectContainer"
    /\ \E selection \in {NoAnswer, "Azure IoT Device SDK for C"} :
         configer' = IF selection = NoAnswer
                     THEN CoreReturn(configer, "cancelled")
                     ELSE [configer EXCEPT !.core = "templateFiles"]
    /\ UNCHANGED <<upgradeVars, runs, failures, uploadConfig, piCall,
                   targetFiles, interfaceCall, interfaceFile, arduino,
                   deviceFiles>>

\* getTemplateFilesInfo resolves; askToOverwrite looks at the first file
TemplateFilesListed ==
    /\ configer.core = "templateFiles"
    /\ configer' = [configer EXCEPT !.core = "exists", !.index = 1]
    /\ UNCHANGED <<upgradeVars, runs, failures, uploadConfig, piCall,
                   targetFiles, interfaceCall, interfaceFile, arduino,
                   deviceFiles>>

\* fileExists of askToOverwrite resolves: the question for a file that
\* exists, the next file, or true after the last file
TargetFileChecked ==
    /\ configer.core = "exists"
    /\ configer' =
         IF targetFiles[configer.index] # "none"
         THEN [configer EXCEPT !.core = "askFile", !.asked = @ + 1,
                               !.askedFor = configer.index]
         ELSE IF configer.index < NumTemplateFiles
         THEN [configer EXCEPT !.index = @ + 1]
         ELSE Proceed(configer)
    /\ UNCHANGED <<upgradeVars, runs, failures, uploadConfig, piCall,
                   targetFiles, interfaceCall, interfaceFile, arduino,
                   deviceFiles>>

\* OverwriteAnswered going on after every answer that is given
OverwriteAnswered_anyAnswer ==
    /\ configer.core = "askFile"
    /\ \E selection \in {NoAnswer, No, YesToAll} :
         LET c == [configer EXCEPT !.answer = selection]
         IN  configer' = IF selection # NoAnswer THEN Proceed(c)
                         ELSE CoreReturn(c, "cancelled")
    /\ UNCHANGED <<upgradeVars, runs, failures, uploadConfig, piCall,
                   targetFiles, interfaceCall, interfaceFile, arduino,
                   deviceFiles>>

\* the question of askToOverwriteFile is answered
OverwriteAnswered ==
    /\ configer.core = "askFile"
    /\ \E selection \in {NoAnswer, No, YesToAll} :
         LET c == [configer EXCEPT !.answer = selection]
         IN  configer' = IF selection = YesToAll THEN Proceed(c)
                         ELSE CoreReturn(c, "cancelled")
    /\ UNCHANGED <<upgradeVars, runs, failures, uploadConfig, piCall,
                   targetFiles, interfaceCall, interfaceFile, arduino,
                   deviceFiles>>

\* the question of askToCustomize is answered
CustomizeAnswered ==
    /\ configer.core = "customize"
    /\ \E selection \in {NoAnswer, "Yes", "No"} :
         configer' = IF selection = NoAnswer
                     THEN CoreReturn(configer, "cancelled")
                     ELSE [configer EXCEPT !.core = "configure",
                                           !.configured = TRUE]
    /\ UNCHANGED <<upgradeVars, runs, failures, uploadConfig, piCall,
                   targetFiles, interfaceCall, interfaceFile, arduino,
                   deviceFiles>>

\* project.configureProjectEnv resolves: the files of the template are
\* written
ProjectEnvConfigured ==
    /\ configer.core = "configure"
    /\ targetFiles' = [f \in TemplateFiles |-> "template"]
    /\ configer' = CoreReturn(configer, "done")
    /\ UNCHANGED <<upgradeVars, runs, failures, uploadConfig, piCall,
                   interfaceCall, interfaceFile, arduino, deviceFiles>>

\* project.configureProjectEnv rejects
ProjectEnvError ==
    /\ configer.core = "configure"
    /\ failures < MaxFailures
    /\ failures' = failures + 1
    /\ configer' = CoreReturn(configer, "threw")
    /\ UNCHANGED <<upgradeVars, runs, uploadConfig, piCall,
                   targetFiles, interfaceCall, interfaceFile, arduino,
                   deviceFiles>>

InitConfiger ==
    /\ UpgradeIdle
    /\ platform = "linux"
    /\ runs = 0
    /\ failures = 0
    /\ PiIdle
    /\ targetFiles \in [TemplateFiles -> {"none", "user"}]
    /\ configer = [IdleConfiger EXCEPT !.pre = targetFiles]
    /\ InterfaceIdle
    /\ ArduinoIdle

NextConfiger ==
    \/ ConfigureStart
    \/ PlatformSelected
    \/ ProgressDone
    \/ TemplateRead
    \/ TemplateReadError
    \/ ContainerSelected
    \/ TemplateFilesListed
    \/ TargetFileChecked
    \/ OverwriteAnswered
    \/ CustomizeAnswered
    \/ ProjectEnvConfigured
    \/ ProjectEnvError

SpecConfiger == InitConfiger /\ [][NextConfiger]_vars

\* C27: when configureProjectEnvironment has completed, the call of
\* configureProjectEnvironmentCore it made has ended, and if that call threw,
\* configureProjectEnvironment threw.
C27_CompletesAfterCore ==
    (configer.outer = "idle" /\ configer.outerResult # "none")
    => /\ configer.core = "idle"
       /\ configer.coreResult = "threw" => configer.outerResult = "threw"

\* C28: project.configureProjectEnv is called only when no target file
\* existed or the answer was 'Yes to all', and the files change only by that
\* call; the question is asked at most once, for the first file that exists;
\* after 'No' or a dismissed question the files are as they were.
C28_OverwriteOnlyOnYesToAll ==
    /\ configer.configured =>
         \/ \A f \in TemplateFiles : configer.pre[f] = "none"
         \/ configer.answer = YesToAll
    /\ targetFiles # configer.pre => configer.configured
    /\ configer.asked <= 1
    /\ configer.asked = 1 =>
         /\ configer.pre[configer.askedFor] # "none"
         /\ \A f \in TemplateFiles :
              f < configer.askedFor => configer.pre[f] = "none"
    /\ configer.answer \in {No, NoAnswer} =>
         /\ ~configer.configured
         /\ targetFiles = configer.pre

C28_Witness ==
    /\ configer.coreResult = "done"
    /\ configer.platform = EmbeddedLinux
    /\ configer.answer = YesToAll
    /\ configer.askedFor = 2
    /\ targetFiles # configer.pre

(***************************************************************************)
(* DownloadInterfaceFile                                                   *)
(***************************************************************************)
\* return of DownloadInterfaceFile
InterfaceReturn(call, value) == [call EXCEPT !.pc = "idle", !.result = value]

\* the query of the public repository is issued
QueryPublic(call) ==
    [call EXCEPT !.pc = "public", !.queries = Append(@, "public")]

\* DownloadInterfaceFile is called: the connection string of the settings,
\* or the input box
DownloadInterfaceStart ==
    /\ interfaceCall.pc = "idle"
    /\ runs < MaxRuns
    /\ runs' = runs + 1
    /\ \E stored \in {"", "HostName=repo;RepositoryId=r1"} :
         interfaceCall' = [IdleInterfaceCall EXCEPT
             !.pre = interfaceFile,
             !.connectionString = stored,
             !.pc = IF stored = "" THEN "input" ELSE "connect"]
    /\ UNCHANGED <<upgradeVars, failures, uploadConfig, piCall, configer,
                   targetFiles, interfaceFile, arduino, deviceFiles>>

\* the input box of the connection string is answered
ConnectionStringEntered ==
    /\ interfaceCall.pc = "input"
    /\ \E answer \in {NoAnswer, "", "HostName=repo;RepositoryId=r1"} :
         interfaceCall' =
            IF NotGiven(answer) THEN InterfaceReturn(interfaceCall, "false")
            ELSE [interfaceCall EXCEPT !.pc = "connect",
                                       !.connectionString = answer]
    /\ UNCHANGED <<upgradeVars, runs, failures, uploadConfig, piCall, configer,
                   targetFiles, interfaceFile, arduino, deviceFiles>>

\* ConnectMetamodelRepository resolves; with a connection the private
\* repository is queried
Connected ==
    /\ interfaceCall.pc = "connect"
    /\ \E result \in BOOLEAN :
         interfaceCall' =
            IF ~result THEN InterfaceReturn(interfaceCall, "false")
            ELSE [interfaceCall EXCEPT !.pc = "private", !.connected = TRUE,
                                       !.queries = <<"private">>]
    /\ UNCHANGED <<upgradeVars, runs, failures, uploadConfig, piCall, configer,
                   targetFiles, interfaceFile, arduino, deviceFiles>>

\* the query of the private repository resolves: with an interface the file
\* is written and true returned, without one the public repository is
\* queried
PrivateResponse ==
    /\ interfaceCall.pc = "private"
    /\ \E fileMetaData \in {Nothing, "interface of the private repository"} :
         /\ interfaceCall' =
              IF fileMetaData = Nothing
              THEN QueryPublic([interfaceCall EXCEPT !.private = "nothing"])
              ELSE InterfaceReturn(
                     [interfaceCall EXCEPT !.private = "yielded",
                                           !.fileMetaData = fileMetaData,
                                           !.wrote = TRUE], "true")
         /\ interfaceFile' = IF fileMetaData = Nothing THEN interfaceFile
                             ELSE fileMetaData
    /\ UNCHANGED <<upgradeVars, runs, failures, uploadConfig, piCall, configer,
                   targetFiles, arduino, deviceFiles>>

\* the query of the private repository resolves with an interface and
\* writeFileSync throws: the catch block ignores the error
PrivateWriteError ==
    /\ interfaceCall.pc = "private"
    /\ failures < MaxFailures
    /\ failures' = failures + 1
    /\ \E fileMetaData \in {Nothing, "interface of the private repository"} \ {Nothing} :
         interfaceCall' = QueryPublic([interfaceCall EXCEPT
                                          !.private = "yielded",
                                          !.fileMetaData = fileMetaData])
    /\ UNCHANGED <<upgradeVars, runs, uploadConfig, piCall, configer,
                   targetFiles, interfaceFile, arduino, deviceFiles>>

\* the query of the private repository rejects
PrivateError ==
    /\ interfaceCall.pc = "private"
    /\ failures < MaxFailures
    /\ failures' = failures + 1
    /\ interfaceCall' = QueryPublic([interfaceCall EXCEPT !.private = "threw"])
    /\ UNCHANGED <<upgradeVars, runs, uploadConfig, piCall, configer,
                   targetFiles, interfaceFile, arduino, deviceFiles>>

\* the query of the public repository resolves
PublicResponse ==
    /\ interfaceCall.pc = "public"
    /\ \E fileMetaData \in {Nothing, "interface of the public repository"} :
         /\ interfaceCall' =
              IF fileMetaData = Nothing
              THEN InterfaceReturn([interfaceCall EXCEPT !.public = "nothing"],
                                   "false")
              ELSE InterfaceReturn(
                     [interfaceCall EXCEPT !.public = "yielded",
                                           !.fileMetaData = fileMetaData,
                                           !.wrote = TRUE], "true")
         /\ interfaceFile' = IF fileMetaData = Nothing THEN interfaceFile
                             ELSE fileMetaData
    /\ UNCHANGED <<upgradeVars, runs, failures, uploadConfig, piCall, configer,
                   targetFiles, arduino, deviceFiles>>

\* the query of the public repository resolves with an interface and
\* writeFileSync throws
PublicWriteError ==
    /\ interfaceCall.pc = "public"
    /\ failures < MaxFailures
    /\ failures' = failures + 1
    /\ \E fileMetaData \in {Nothing, "interface of the public repository"} \ {Nothing} :
         interfaceCall' = InterfaceReturn(
             [interfaceCall EXCEPT !.public = "yielded",
                                   !.fileMetaData = fileMetaData], "false")
    /\ UNCHANGED <<upgradeVars, runs, uploadConfig, piCall, configer,
                   targetFiles, interfaceFile, arduino, deviceFiles>>

\* the query of the public repository rejects
PublicError ==
    /\ interfaceCall.pc = "public"
    /\ failures < MaxFailures
    /\ failures' = failures + 1
    /\ interfaceCall' = InterfaceReturn([interfaceCall EXCEPT !.public = "threw"],
                                        "false")
    /\ UNCHANGED <<upgradeVars, runs, uploadConfig, piCall, configer,
                   targetFiles, interfaceFile, arduino, deviceFiles>>

InitInterface ==
    /\ UpgradeIdle
    /\ platform = "linux"
    /\ runs = 0
    /\ failures = 0
    /\ PiIdle
    /\ ConfigerIdle
    /\ interfaceFile \in {"none", "interface of an earlier download"}
    /\ interfaceCall = [IdleInterfaceCall EXCEPT !.pre = interfaceFile]
    /\ ArduinoIdle

NextInterface ==
    \/ DownloadInterfaceStart
    \/ ConnectionStringEntered
    \/ Connected
    \/ PrivateResponse
    \/ PrivateWriteError
    \/ PrivateError
    \/ PublicResponse
    \/ PublicWriteError
    \/ PublicError

SpecInterface == InitInterface /\ [][NextInterface]_vars

\* the query did not deliver the interface
QueryFailed(outcome) == outcome \in {"nothing", "threw"}

\* C29: the private repository is queried first and the public one only
\* after the private query threw or yielded nothing; the call returns true
\* exactly when a query yielded the interface and the file was written with
\* it; without a connection string, without a connection, or with both
\* queries failed it returns false and the file is as before.
C29_PrivateThenPublic ==
    /\ interfaceCall.queries \in {<<>>, <<"private">>, <<"private", "public">>}
    /\ Len(interfaceCall.queries) = 2 => QueryFailed(interfaceCall.private)
    /\ interfaceCall.wrote =>
         /\ interfaceCall.private = "yielded" \/ interfaceCall.public = "yielded"
         /\ interfaceFile = interfaceCall.fileMetaData
    /\ (interfaceCall.pc = "idle" /\ interfaceCall.result # "none") =>
         /\ interfaceCall.result = "true" <=> interfaceCall.wrote
         /\ (\/ NotGiven(interfaceCall.connectionString)
             \/ ~interfaceCall.connected
             \/ /\ QueryFailed(interfaceCall.private)
                /\ QueryFailed(interfaceCall.public))
            => /\ interfaceCall.result = "false"
               /\ interfaceFile = interfaceCall.pre

(***************************************************************************)
(* ArduinoDeviceBase: load, createCore and c_cpp_properties.json           *)
(***************************************************************************)
\* this.version of the device: the default, or the installed package
DeviceVersions == {"0.0.1", "1.0.4"}

\* cppPropertiesTemplateFileName for utils.getPlatform()
CppTemplate(pf) ==
    IF pf = "win32" THEN "c_cpp_properties_win32.json"
    ELSE IF pf = "linux" THEN "c_cpp_properties_linux.json"
    ELSE "c_cpp_properties_macos.json"

\* the template with {VERSION} replaced, and {ROOTPATH} replaced on win32
\* and linux only
CppContent(pf, version) ==
    [template |-> CppTemplate(pf), version |-> version,
     rootPath |-> IF pf = "win32" THEN "home\\\\AppData\\\\Local"
                  ELSE IF pf = "linux" THEN "home"
                  ELSE "{ROOTPATH}"]

\* a c_cpp_properties.json of the user
UserContent == [template |-> "user", version |-> "user", rootPath |-> "user"]

\* generateCppPropertiesFile has returned: load returns, createCore goes on
\* to configDeviceEnvironment
AfterCppProperties(call) ==
    IF call.op = "load" THEN [call EXCEPT !.pc = "idle", !.result = "done"]
    ELSE [call EXCEPT !.pc = "deviceEnv"]

\* DirectoryNotFoundError, or a rejected file operation
DeviceThrow(call) == [call EXCEPT !.pc = "idle", !.result = "threw"]

\* load or createCore is called
DeviceCallStart(op) ==
    /\ arduino.pc = "idle"
    /\ runs < MaxRuns
    /\ runs' = runs + 1
    /\ arduino' = [IdleArduino EXCEPT
                       !.op = op, !.pc = "deviceFolder",
                       !.writes = arduino.writes,
                       !.run = arduino.run + 1,
                       !.pre = deviceFiles.cppProperties]
    /\ UNCHANGED <<upgradeVars, failures, uploadConfig, piCall, configer,
                   targetFiles, interfaceCall, interfaceFile, deviceFiles>>

\* directoryExists(deviceFolder) resolves
DeviceFolderChecked ==
    /\ arduino.pc = "deviceFolder"
    /\ arduino' = IF ~deviceFiles.deviceFolder THEN DeviceThrow(arduino)
                  ELSE IF arduino.op = "createCore"
                  THEN [arduino EXCEPT !.pc = "templates"]
                  ELSE [arduino EXCEPT !.pc = "vscodeFolder"]
    /\ UNCHANGED <<upgradeVars, runs, failures, uploadConfig, piCall, configer,
                   targetFiles, interfaceCall, interfaceFile, deviceFiles>>

\* the template files of createCore are generated
TemplateFilesGenerated ==
    /\ arduino.pc = "templates"
    /\ arduino' = [arduino EXCEPT !.pc = "vscodeFolder"]
    /\ UNCHANGED <<upgradeVars, runs, failures, uploadConfig, piCall, configer,
                   targetFiles, interfaceCall, interfaceFile, deviceFiles>>

\* generateCppPropertiesFile: the .vscode folder is there or made, the
\* platform is known, writeCppPropertiesFile asks for the file
VscodeFolderChecked ==
    /\ arduino.pc = "vscodeFolder"
    /\ deviceFiles' = [deviceFiles EXCEPT !.vscodeFolder = TRUE]
    /\ arduino' = [arduino EXCEPT !.pc = "fileExists"]
    /\ UNCHANGED <<upgradeVars, runs, failures, uploadConfig, piCall, configer,
                   targetFiles, interfaceCall, interfaceFile>>

\* CppPropertiesChecked without the return for a file that exists
CppPropertiesChecked_noCheck ==
    /\ arduino.pc = "fileExists"
    /\ arduino' = [arduino EXCEPT !.pc = "readTemplate"]
    /\ UNCHANGED <<upgradeVars, runs, failures, uploadConfig, piCall, configer,
                   targetFiles, interfaceCall, interfaceFile, deviceFiles>>

\* fileExists(cppPropertiesFilePath) resolves: return for a file that
\* exists, else the template is read
CppPropertiesChecked ==
    /\ arduino.pc = "fileExists"
    /\ arduino' = IF deviceFiles.cppProperties # NoContent
                  THEN AfterCppProperties(arduino)
                  ELSE [arduino EXCEPT !.pc = "readTemplate"]
    /\ UNCHANGED <<upgradeVars, runs, failures, uploadConfig, piCall, configer,
                   targetFiles, interfaceCall, interfaceFile, deviceFiles>>

\* the template is read and its placeholders are replaced
CppTemplateRead ==
    /\ arduino.pc = "readTemplate"
    /\ \E version \in DeviceVersions :
         arduino' = [arduino EXCEPT !.pc = "write",
                                    !.content = CppContent(platform, version)]
    /\ UNCHANGED <<upgradeVars, runs, failures, uploadConfig, piCall, configer,
                   targetFiles, interfaceCall, interfaceFile, deviceFiles>>

\* the template cannot be read
CppTemplateReadError ==
    /\ arduino.pc = "readTemplate"
    /\ failures < MaxFailures
    /\ failures' = failures + 1
    /\ arduino' = DeviceThrow(arduino)
    /\ UNCHANGED <<upgradeVars, runs, uploadConfig, piCall, configer,
                   targetFiles, interfaceCall, interfaceFile, deviceFiles>>

\* FileUtility.writeFile resolves
CppPropertiesWritten ==
    /\ arduino.pc = "write"
    /\ deviceFiles' = [deviceFiles EXCEPT !.cppProperties = arduino.content]
    /\ arduino' = AfterCppProperties([arduino EXCEPT !.writes = @ + 1])
    /\ UNCHANGED <<upgradeVars, runs, failures, uploadConfig, piCall, configer,
                   targetFiles, interfaceCall, interfaceFile>>

\* FileUtility.writeFile rejects
CppPropertiesWriteError ==
    /\ arduino.pc = "write"
    /\ failures < MaxFailures
    /\ failures' = failures + 1
    /\ arduino' = DeviceThrow(arduino)
    /\ UNCHANGED <<upgradeVars, runs, uploadConfig, piCall, configer,
                   targetFiles, interfaceCall, interfaceFile, deviceFiles>>

\* configDeviceEnvironment of createCore resolves
DeviceEnvConfigured ==
    /\ arduino.pc = "deviceEnv"
    /\ arduino' = [arduino EXCEPT !.pc = "idle", !.result = "done"]
    /\ UNCHANGED <<upgradeVars, runs, failures, uploadConfig, piCall, configer,
                   targetFiles, interfaceCall, interfaceFile, deviceFiles>>

InitArduino ==
    /\ UpgradeIdle
    /\ platform \in Platforms
    /\ runs = 0
    /\ failures = 0
    /\ PiIdle
    /\ ConfigerIdle
    /\ InterfaceIdle
    /\ deviceFiles \in
         { NoDeviceFiles,
             [NoDeviceFiles EXCEPT !.deviceFolder = TRUE],
             [NoDeviceFiles EXCEPT !.deviceFolder = TRUE, !.vscodeFolder = TRUE],
             [deviceFolder |-> TRUE, vscodeFolder |-> TRUE,
              cppProperties |-> UserContent] }
    /\ arduino = [IdleArduino EXCEPT !.pre = deviceFiles.cppProperties]

NextArduino ==
    \/ \E op \in {"load", "createCore"} : DeviceCallStart(op)
    \/ DeviceFolderChecked
    \/ TemplateFilesGenerated
    \/ VscodeFolderChecked
    \/ CppPropertiesChecked
    \/ CppTemplateRead
    \/ CppTemplateReadError
    \/ CppPropertiesWritten
    \/ CppPropertiesWriteError
    \/ DeviceEnvConfigured

SpecArduino == InitArduino /\ [][NextArduino]_vars

====
